---- MODULE Spec2Model ----
(***************************************************************************)
(* Hymnal text pipelines: generate.py (header "Hino <n> - <title>"),       *)
(* generate-ccb-casteliano.py (header "<n> <title>", indentation chorus)   *)
(* and process_local_files of fetch-cantor-cristao.py.                     *)
(*                                                                         *)
(* Text is modelled character by character: a string is a sequence of      *)
(* one-character strings.  Characters outside ASCII are written as named   *)
(* tokens (EnDash, IAcute); other accented letters of the examples are     *)
(* written unaccented, which no pattern of the code distinguishes.         *)
(***************************************************************************)
EXTENDS Integers, Sequences, FiniteSets, TLC

\* ------------------------------------------------------------ characters
NL == "\n"
FF == "\f"
SP == " "
TAB == "\t"
EnDash == "en_dash"
IAcute == "I_acute"

DigitChars == <<"0", "1", "2", "3", "4", "5", "6", "7", "8", "9">>

IsDigit(c) == \E i \in 1..10 : DigitChars[i] = c

DigitValue(c) == (CHOOSE i \in 1..10 : DigitChars[i] = c) - 1

\* Python's str.strip() / regex \s, over the characters of the model
IsSpace(c) == c \in {SP, TAB, NL, FF}

\* str.splitlines() boundaries, over the characters of the model
IsLineBreak(c) == c \in {NL, FF}

UpperChars == <<"A", "B", "C", "D", "E", "F", "G", "H", "I", "J", "K", "L", "M",
                "N", "O", "P", "Q", "R", "S", "T", "U", "V", "W", "X", "Y", "Z">>

LowerChars == <<"a", "b", "c", "d", "e", "f", "g", "h", "i", "j", "k", "l", "m",
                "n", "o", "p", "q", "r", "s", "t", "u", "v", "w", "x", "y", "z">>

\* re.IGNORECASE compares characters case-folded
Lower(c) ==
    IF \E i \in 1..26 : UpperChars[i] = c
    THEN LowerChars[CHOOSE i \in 1..26 : UpperChars[i] = c]
    ELSE c

\* --------------------------------------------------------------- strings
Tail_(s, p) == SubSeq(s, p, Len(s))

RECURSIVE LStripLen(_)
\* number of leading whitespace characters
LStripLen(s) ==
    IF s # <<>> /\ IsSpace(Head(s)) THEN 1 + LStripLen(Tail(s)) ELSE 0

LStrip(s) == Tail_(s, LStripLen(s) + 1)

RECURSIVE RStrip(_)
RStrip(s) ==
    IF s # <<>> /\ IsSpace(s[Len(s)]) THEN RStrip(SubSeq(s, 1, Len(s) - 1)) ELSE s

Strip(s) == RStrip(LStrip(s))

\* s[p..] starts with the literal lit (ci: case-insensitively)
StartsWithAt(s, p, lit, ci) ==
    /\ p >= 1
    /\ p + Len(lit) - 1 <= Len(s)
    /\ \A k \in 1..Len(lit) :
          IF ci THEN Lower(s[p + k - 1]) = Lower(lit[k]) ELSE s[p + k - 1] = lit[k]

\* first position >= p where lit occurs in s, 0 when it does not
FindFrom(s, lit, p) ==
    LET hits == {q \in p..Len(s) : StartsWithAt(s, q, lit, FALSE)}
    IN IF hits = {} THEN 0 ELSE CHOOSE q \in hits : \A r \in hits : q <= r

RECURSIVE SkipSpaces(_, _)
\* first position >= p holding no whitespace (Len(s) + 1 when none)
SkipSpaces(s, p) ==
    IF p <= Len(s) /\ IsSpace(s[p]) THEN SkipSpaces(s, p + 1) ELSE p

RECURSIVE SkipDigits(_, _)
SkipDigits(s, p) ==
    IF p <= Len(s) /\ IsDigit(s[p]) THEN SkipDigits(s, p + 1) ELSE p

RECURSIVE SplitLines(_)
\* str.splitlines(): breaks removed, no empty last line after a final break
SplitLines(s) ==
    IF s = <<>> THEN <<>>
    ELSE LET brk == {k \in 1..Len(s) : IsLineBreak(s[k])}
         IN IF brk = {} THEN <<s>>
            ELSE LET k == CHOOSE q \in brk : \A r \in brk : q <= r
                 IN <<SubSeq(s, 1, k - 1)>> \o SplitLines(Tail_(s, k + 1))

RECURSIVE DigitsToInt(_)
\* int("007") = 7
DigitsToInt(ds) ==
    IF ds = <<>> THEN 0
    ELSE 10 * DigitsToInt(SubSeq(ds, 1, Len(ds) - 1)) + DigitValue(ds[Len(ds)])

RECURSIVE IntToChars(_)
\* str(n) for n >= 0
IntToChars(n) ==
    IF n < 10 THEN <<DigitChars[n + 1]>>
    ELSE IntToChars(n \div 10) \o <<DigitChars[(n % 10) + 1]>>

RECURSIVE JoinWith(_, _)
\* sep.join(parts)
JoinWith(parts, sep) ==
    IF parts = <<>> THEN <<>>
    ELSE IF Len(parts) = 1 THEN parts[1]
    ELSE parts[1] \o sep \o JoinWith(Tail(parts), sep)

\* ------------------------------------------------- patterns of the parsers
HinoLit == <<"H", "i", "n", "o">>

CoroLit == <<"C", "o", "r", "o">>

IndiceLit == <<IAcute, "n", "d", "i", "c", "e">>

NoMatch == [ok |-> FALSE, num |-> <<>>, rest |-> <<>>]

\* Hino\s+(\d+)\s+[en-dash or -] at position p: the digits and the dash's place
HinoMatchAt(s, p, ci) ==
    LET q1 == p + Len(HinoLit)
        q2 == SkipSpaces(s, q1)
        q3 == SkipDigits(s, q2)
        q4 == SkipSpaces(s, q3)
    IN [ok |-> /\ StartsWithAt(s, p, HinoLit, ci)
               /\ q2 > q1 /\ q3 > q2 /\ q4 > q3
               /\ q4 <= Len(s)
               /\ s[q4] \in {EnDash, "-"},
        num |-> SubSeq(s, q2, q3 - 1),
        dash |-> q4]

\* \s+(.+) at position q, to the end of a line: greedy \s+ gives back one
\* whitespace character to .+ when nothing else is left
TitleAfter(s, q) ==
    LET k == SkipSpaces(s, q)
    IN IF k = q THEN [ok |-> FALSE, rest |-> <<>>]
       ELSE IF k <= Len(s) THEN [ok |-> TRUE, rest |-> Tail_(s, k)]
       ELSE IF k - q >= 2 THEN [ok |-> TRUE, rest |-> <<s[Len(s)]>>]
       ELSE [ok |-> FALSE, rest |-> <<>>]

\* re.search(r"Hino\s+(\d+)\s+[en-dash or -]\s+(.+)", line.strip(), re.IGNORECASE)
HeaderMatchGenerate(line) ==
    LET s == Strip(line)
        hits == {p \in 1..Len(s) :
                    /\ HinoMatchAt(s, p, TRUE).ok
                    /\ TitleAfter(s, HinoMatchAt(s, p, TRUE).dash + 1).ok}
    IN IF hits = {} THEN NoMatch
       ELSE LET p == CHOOSE q \in hits : \A r \in hits : q <= r
                m == HinoMatchAt(s, p, TRUE)
            IN [ok |-> TRUE, num |-> m.num, rest |-> TitleAfter(s, m.dash + 1).rest]

\* re.match(r"^\f?(\d+)\s+(.+)", line), on the line as it is (not stripped)
HeaderMatchCasteliano(line) ==
    LET q1 == IF line # <<>> /\ line[1] = FF THEN 2 ELSE 1
        q2 == SkipDigits(line, q1)
        t == TitleAfter(line, q2)
    IN IF q2 > q1 /\ t.ok
       THEN [ok |-> TRUE, num |-> SubSeq(line, q1, q2 - 1), rest |-> t.rest]
       ELSE NoMatch

HeaderMatch(v, line) ==
    IF v = "generate" THEN HeaderMatchGenerate(line) ELSE HeaderMatchCasteliano(line)

\* index of the first line with a header, 0 when none (header_line_idx == -1)
HeaderLineIdx(v, lines) ==
    LET hits == {i \in 1..Len(lines) : HeaderMatch(v, lines[i]).ok}
    IN IF hits = {} THEN 0 ELSE CHOOSE i \in hits : \A j \in hits : i <= j

\* re.match(r"^\d+\s*\.?", next_line)
StartsWithNumeral(s) == s # <<>> /\ IsDigit(s[1])

\* re.match(r"^(?:CORO|Coro)", next_line, re.IGNORECASE)
StartsWithCoro(s) == StartsWithAt(s, 1, CoroLit, TRUE)

\* mutant of IsTitleContinuation: the blank line behind it is not required
IsTitleContinuationAnyNext(lines, h) ==
    /\ h + 1 <= Len(lines)
    /\ Strip(lines[h + 1]) # <<>>
    /\ ~StartsWithNumeral(Strip(lines[h + 1]))
    /\ ~StartsWithCoro(Strip(lines[h + 1]))

\* the continuation-line test: the line after the header joins the title
IsTitleContinuation(lines, h) ==
    /\ h + 1 <= Len(lines)
    /\ Strip(lines[h + 1]) # <<>>
    /\ ~StartsWithNumeral(Strip(lines[h + 1]))
    /\ ~StartsWithCoro(Strip(lines[h + 1]))
    /\ h + 2 <= Len(lines)
    /\ Strip(lines[h + 2]) = <<>>

\* re.match(r"^(\d+)\s*\.?(.*)", stripped)
VerseMatch(s) ==
    LET q1 == SkipDigits(s, 1)
        q2 == SkipSpaces(s, q1)
        q3 == IF q2 <= Len(s) /\ s[q2] = "." THEN q2 + 1 ELSE q2
    IN IF q1 > 1
       THEN [ok |-> TRUE, num |-> SubSeq(s, 1, q1 - 1), rest |-> Tail_(s, q3)]
       ELSE NoMatch

\* re.match(r"^(?:CORO|Coro)(?:\s*:)?\s*(.*)", stripped, re.IGNORECASE)
ChorusMatch(s) ==
    LET q1 == Len(CoroLit) + 1
        q2 == SkipSpaces(s, q1)
        q3 == IF q2 <= Len(s) /\ s[q2] = ":" THEN q2 + 1 ELSE q1
        q4 == SkipSpaces(s, q3)
    IN IF StartsWithCoro(s)
       THEN [ok |-> TRUE, num |-> <<>>, rest |-> Tail_(s, q4)]
       ELSE NoMatch

\* len(line) - len(line.lstrip())
Indentation(line) == LStripLen(line)

\* implicit chorus threshold of the Casteliano parser
IndentThreshold == 5

RECURSIVE RemoveParens(_)
\* re.sub(r"\s*\(.*?\)\s*", "", title)
RemoveParens(s) ==
    LET o == FindFrom(s, <<"(">>, 1)
        c == IF o = 0 THEN 0 ELSE FindFrom(s, <<")">>, o + 1)
    IN IF o = 0 \/ c = 0 THEN s
       ELSE LET start == Len(RStrip(SubSeq(s, 1, o - 1))) + 1
                after == SkipSpaces(s, c + 1)
            IN SubSeq(s, 1, start - 1) \o RemoveParens(Tail_(s, after))

RECURSIVE RStripDash(_)
\* title.rstrip(" <en-dash>")
RStripDash(s) ==
    IF s # <<>> /\ s[Len(s)] \in {SP, EnDash}
    THEN RStripDash(SubSeq(s, 1, Len(s) - 1))
    ELSE s

RECURSIVE CollapseSpaces(_)
\* re.sub(r"\s+", " ", title)
CollapseSpaces(s) ==
    IF s = <<>> THEN <<>>
    ELSE IF IsSpace(s[1]) THEN <<SP>> \o CollapseSpaces(Tail_(s, SkipSpaces(s, 1)))
    ELSE <<s[1]>> \o CollapseSpaces(Tail(s))

\* the title as returned: generate.py returns it as built, the Casteliano
\* parser strips parentheticals, a trailing dash and runs of whitespace
CleanTitle(v, t) ==
    IF v = "casteliano" THEN CollapseSpaces(RStripDash(Strip(RemoveParens(t)))) ELSE t

\* ------------------------------------------------------------ the splitters
\* the lookahead of generate.py: (?=\f?Hino\s+\d+\s+[en-dash or -]), no anchor
BoundaryGenerate(s, p) ==
    \/ HinoMatchAt(s, p, FALSE).ok
    \/ s[p] = FF /\ HinoMatchAt(s, p + 1, FALSE).ok

\* the lookahead of the Casteliano script: (?=^\f?\d+\s+) under re.MULTILINE,
\* where ^ holds at the start of the text and right after a "\n"
BoundaryCasteliano(s, p) ==
    LET q1 == IF s[p] = FF THEN p + 1 ELSE p
        q2 == SkipDigits(s, q1)
    IN /\ p = 1 \/ s[p - 1] = NL
       /\ q2 > q1
       /\ SkipSpaces(s, q2) > q2

Boundary(v, s, p) ==
    IF v = "generate" THEN BoundaryGenerate(s, p) ELSE BoundaryCasteliano(s, p)

\* the positions where re.split cuts: every (empty) match of the lookahead
SplitPoints(v, s) == {p \in 1..Len(s) : Boundary(v, s, p)}

RECURSIVE CutAtDropBoundary(_, _, _)
\* mutant of CutAt: a consuming pattern, the character at each cut is lost
CutAtDropBoundary(s, P, start) ==
    IF P = {} THEN <<Tail_(s, start)>>
    ELSE LET p == CHOOSE q \in P : \A r \in P : q <= r
         IN <<SubSeq(s, start, p - 1)>> \o CutAtDropBoundary(s, P \ {p}, p + 1)

RECURSIVE CutAt(_, _, _)
\* the pieces between consecutive cut points, nothing consumed
CutAt(s, P, start) ==
    IF P = {} THEN <<Tail_(s, start)>>
    ELSE LET p == CHOOSE q \in P : \A r \in P : q <= r
         IN <<SubSeq(s, start, p - 1)>> \o CutAt(s, P \ {p}, p)

\* re.split(pattern, content): a match at the very start leaves an empty
\* first piece
ReSplit(v, s) ==
    IF 1 \in SplitPoints(v, s)
    THEN <<<<>>>> \o CutAt(s, SplitPoints(v, s) \ {1}, 1)
    ELSE CutAt(s, SplitPoints(v, s), 1)

NonBlank(h) == Strip(h) # <<>>

\* [h for h in raw_hymns if h.strip()]
KeepNonBlank(blocks) == SelectSeq(blocks, NonBlank)

\* raw_block.split("Indice")[0], when "Indice" in raw_block
TruncateAtIndice(block) ==
    LET k == FindFrom(block, IndiceLit, 1)
    IN IF k = 0 THEN block ELSE SubSeq(block, 1, k - 1)

\* ------------------------------------------------------- rendering a record
VerseLabel(n) == <<"V", "e", "r", "s", "e", " ">> \o IntToChars(n)

ChorusLabel == <<"C", "h", "o", "r", "u", "s">>

\* f"[{current_label}]\n{text}" with text = "\n".join(current_buffer)
RenderPart(part) == <<"[">> \o part.label \o <<"]", NL>> \o JoinWith(part.lines, <<NL>>)

RECURSIVE RenderParts(_)
RenderParts(parts) ==
    IF parts = <<>> THEN <<>> ELSE <<RenderPart(parts[1])>> \o RenderParts(Tail(parts))

\* "\n\n".join(lyrics_parts)
RenderLyrics(parts) == JoinWith(RenderParts(parts), <<NL, NL>>)

JsonExt == <<".", "j", "s", "o", "n">>

MdExt == <<".", "m", "d">>

\* f"{hymn_data['no']}.json"
JsonName(no) == IntToChars(no) \o JsonExt

\* f"{base_name}-{counter}.json"
SuffixedName(no, counter) == IntToChars(no) \o <<"-">> \o IntToChars(counter)

\* the same name under the Markdown directory: f"{no}.md", or
\* json_filename.replace(".json", ".md")
MdNameOf(json_name) == SubSeq(json_name, 1, Len(json_name) - Len(JsonExt)) \o MdExt

\* the Markdown body of the two text pipelines
MdContent(data) ==
    <<"-", "-", "-", NL, "n", "o", ":", SP>> \o IntToChars(data.no)
    \o <<NL, "t", "i", "t", "l", "e", ":", SP>> \o data.title
    \o <<NL, "-", "-", "-", NL, NL>> \o data.lyrics \o <<NL>>

\* ------------------------------------------------------------------- state
VARIABLES
    variant,             \* which script runs: "generate", "casteliano", "cantor"
    pc,                  \* position of main / process_local_files
    content,             \* the text read from INPUT_FILE
    raw_hymns,           \* the blocks left after the split and the filter
    bi,                  \* index of the block the for loop is at
    stop_processing,     \* Casteliano main: the index marker was seen
    raw_lines,           \* parse_hymn_block: block.splitlines()
    li,                  \* parse_hymn_block: index of the next body line
    body_start,          \* parse_hymn_block: body_start_idx (1-based)
    hino_id,
    title,
    lyrics_parts,        \* emitted segments: [label, lines, src]
    current_label,
    current_buffer,
    buffer_src,          \* history: the line index each buffered line came from
    next_verse_number,
    expecting_new_block,
    hymn_data,           \* <<>> for None, <<record>> for a returned record
    json_files,          \* output directory: file name -> record
    md_files,            \* output directory: file name -> text
    written,             \* history: every write, in order
    html_files,          \* cantor: the sorted listing of OUTPUT_DIR
    hi                   \* cantor: index of the file the loop is at

vars == <<variant, pc, content, raw_hymns, bi, stop_processing, raw_lines, li,
          body_start, hino_id, title, lyrics_parts, current_label,
          current_buffer, buffer_src, next_verse_number, expecting_new_block,
          hymn_data, json_files, md_files, written, html_files, hi>>

parserVars == <<raw_lines, li, body_start, hino_id, title, lyrics_parts,
                current_label, current_buffer, buffer_src, next_verse_number,
                expecting_new_block>>

outputVars == <<json_files, md_files, written>>

EmptyFiles == [n \in {} |-> <<>>]

\* everything but the input and the position, as a run starts
Fresh ==
    /\ bi = 1
    /\ hi = 1
    /\ stop_processing = FALSE
    /\ raw_lines = <<>>
    /\ li = 1
    /\ body_start = 1
    /\ hino_id = 0
    /\ title = <<>>
    /\ lyrics_parts = <<>>
    /\ current_label = <<>>
    /\ current_buffer = <<>>
    /\ buffer_src = <<>>
    /\ next_verse_number = 1
    /\ expecting_new_block = FALSE
    /\ hymn_data = <<>>
    /\ json_files = EmptyFiles
    /\ md_files = EmptyFiles
    /\ written = <<>>

\* the state at the start of a run of a script on one input
InitOn(in) ==
    /\ variant = in.variant
    /\ content = in.content
    /\ html_files = in.html_files
    /\ pc = IF in.variant = "cantor" THEN "html" ELSE "split"
    /\ raw_hymns = <<>>
    /\ Fresh

\* the state in which main hands one block to parse_hymn_block
InitOnBlock(v, block) ==
    /\ variant = v
    /\ content = block
    /\ html_files = <<>>
    /\ pc = "loop"
    /\ raw_hymns = <<block>>
    /\ Fresh

\* -------------------------------------------------- the segment builder
\* the running state of the loop over raw_body_lines, as one record
ParserState ==
    [parts |-> lyrics_parts, label |-> current_label, buffer |-> current_buffer,
     src |-> buffer_src, nvn |-> next_verse_number,
     expecting |-> expecting_new_block]

\* flush_buffer(): emit the segment when label and buffer are both non-empty,
\* clear the buffer either way
Flush(ps) ==
    [ps EXCEPT
        !.parts = IF ps.label # <<>> /\ ps.buffer # <<>>
                  THEN Append(ps.parts,
                              [label |-> ps.label, lines |-> ps.buffer, src |-> ps.src])
                  ELSE ps.parts,
        !.buffer = <<>>,
        !.src = <<>>]

\* a blank line: a boundary is pending when the buffer holds something
OnBlank(ps) ==
    [ps EXCEPT !.expecting = IF ps.buffer # <<>> THEN TRUE ELSE ps.expecting]

\* mutant of OnVerse: the segment in progress is not flushed at a marker
OnVerseNoFlush(ps, m, idx) ==
    LET verse_num == DigitsToInt(m.num)
        text == Strip(m.rest)
    IN [ps EXCEPT
          !.nvn = verse_num + 1,
          !.label = VerseLabel(verse_num),
          !.buffer = IF text # <<>> THEN Append(ps.buffer, text) ELSE ps.buffer,
          !.src = IF text # <<>> THEN Append(ps.src, idx) ELSE ps.src,
          !.expecting = FALSE]

\* an explicit verse marker, with the text that follows it on the line
OnVerse(ps, m, idx) ==
    LET f == Flush(ps)
        verse_num == DigitsToInt(m.num)
        text == Strip(m.rest)
    IN [f EXCEPT
          !.nvn = verse_num + 1,
          !.label = VerseLabel(verse_num),
          !.buffer = IF text # <<>> THEN <<text>> ELSE <<>>,
          !.src = IF text # <<>> THEN <<idx>> ELSE <<>>,
          !.expecting = FALSE]

\* a Coro marker, with the text that follows it on the line
OnChorus(ps, m, idx) ==
    LET f == Flush(ps)
        text == Strip(m.rest)
    IN [f EXCEPT
          !.label = ChorusLabel,
          !.buffer = IF text # <<>> THEN <<text>> ELSE <<>>,
          !.src = IF text # <<>> THEN <<idx>> ELSE <<>>,
          !.expecting = FALSE]

\* Casteliano only: a line indented by IndentThreshold or more is chorus text
OnIndented(ps, stripped, idx) ==
    LET f == IF ps.label # ChorusLabel
             THEN [Flush(ps) EXCEPT !.label = ChorusLabel]
             ELSE ps
    IN [f EXCEPT
          !.buffer = Append(f.buffer, stripped),
          !.src = Append(f.src, idx),
          !.expecting = FALSE]

\* mutant of ImplicitVerse: the counter restarts behind the implicit verse
ImplicitVerseRestart(ps, stripped, idx) ==
    LET f == Flush(ps)
    IN [f EXCEPT
          !.label = VerseLabel(ps.nvn),
          !.nvn = 2,
          !.buffer = <<stripped>>,
          !.src = <<idx>>]

\* start the implicit verse numbered next_verse_number with this line
ImplicitVerse(ps, stripped, idx) ==
    LET f == Flush(ps)
    IN [f EXCEPT
          !.label = VerseLabel(ps.nvn),
          !.nvn = ps.nvn + 1,
          !.buffer = <<stripped>>,
          !.src = <<idx>>]

\* mutant of OnPlain: the first unnumbered line is buffered under no label
OnPlainNoFirstLabel(v, ps, stripped, idx) ==
    IF ps.expecting
    THEN [ImplicitVerse(ps, stripped, idx) EXCEPT !.expecting = FALSE]
    ELSE IF v = "casteliano" /\ ps.label = ChorusLabel
    THEN ImplicitVerse(ps, stripped, idx)
    ELSE [ps EXCEPT !.buffer = Append(ps.buffer, stripped), !.src = Append(ps.src, idx)]

\* a line of text with no marker (and, in Casteliano, no deep indentation)
OnPlain(v, ps, stripped, idx) ==
    IF ps.expecting
    THEN [ImplicitVerse(ps, stripped, idx) EXCEPT !.expecting = FALSE]
    ELSE IF v = "casteliano" /\ ps.label = ChorusLabel
    THEN ImplicitVerse(ps, stripped, idx)
    ELSE IF ps.label # <<>>
    THEN [ps EXCEPT !.buffer = Append(ps.buffer, stripped), !.src = Append(ps.src, idx)]
    ELSE [ps EXCEPT
            !.label = VerseLabel(1),
            !.nvn = 2,
            !.buffer = Append(ps.buffer, stripped),
            !.src = Append(ps.src, idx),
            !.expecting = FALSE]

\* one iteration of "for line in raw_body_lines"
ParseStep(v, ps, line, idx) ==
    LET stripped == Strip(line)
    IN IF stripped = <<>> THEN OnBlank(ps)
       ELSE IF VerseMatch(stripped).ok THEN OnVerse(ps, VerseMatch(stripped), idx)
       ELSE IF ChorusMatch(stripped).ok THEN OnChorus(ps, ChorusMatch(stripped), idx)
       ELSE IF v = "casteliano" /\ Indentation(line) >= IndentThreshold
       THEN OnIndented(ps, stripped, idx)
       ELSE OnPlain(v, ps, stripped, idx)

\* what parse_hymn_block returns after the last flush: <<>> stands for None
ParseResult(v, no, t, parts) ==
    IF v = "casteliano" /\ parts = <<>> THEN <<>>
    ELSE <<[no |-> no, title |-> CleanTitle(v, t), lyrics |-> RenderLyrics(parts)]>>

\* ------------------------------------------------- main of the text scripts
\* the block handed to parse_hymn_block: Casteliano cuts it at the index marker
CurrentBlock ==
    IF variant = "casteliano" THEN TruncateAtIndice(raw_hymns[bi]) ELSE raw_hymns[bi]

\* mutant of SeesIndice: the marker is looked for in the block after the cut
SeesIndiceAfterCut == variant = "casteliano" /\ FindFrom(CurrentBlock, IndiceLit, 1) # 0

SeesIndice == variant = "casteliano" /\ FindFrom(raw_hymns[bi], IndiceLit, 1) # 0

\* raw_hymns = re.split(pattern, content)
Split ==
    /\ pc = "split"
    /\ raw_hymns' = ReSplit(variant, content)
    /\ pc' = "filter"
    /\ UNCHANGED <<variant, content, bi, stop_processing, hymn_data, html_files, hi>>
    /\ UNCHANGED parserVars
    /\ UNCHANGED outputVars

\* raw_hymns = [h for h in raw_hymns if h.strip()]
Filter ==
    /\ pc = "filter"
    /\ raw_hymns' = KeepNonBlank(raw_hymns)
    /\ pc' = "loop"
    /\ UNCHANGED <<variant, content, bi, stop_processing, hymn_data, html_files, hi>>
    /\ UNCHANGED parserVars
    /\ UNCHANGED outputVars

\* a block with no header line: parse_hymn_block returns None, nothing is written
SkipBlock ==
    /\ pc = "loop"
    /\ bi <= Len(raw_hymns)
    /\ ~stop_processing
    /\ HeaderLineIdx(variant, SplitLines(CurrentBlock)) = 0
    /\ raw_lines' = SplitLines(CurrentBlock)
    /\ stop_processing' = SeesIndice
    /\ hymn_data' = <<>>
    /\ bi' = bi + 1
    /\ UNCHANGED <<variant, pc, content, raw_hymns, html_files, hi, li, body_start,
                   hino_id, title, lyrics_parts, current_label, current_buffer,
                   buffer_src, next_verse_number, expecting_new_block>>
    /\ UNCHANGED outputVars

\* parse_hymn_block up to its loop: header, title continuation, fresh state
BeginBlock ==
    /\ pc = "loop"
    /\ bi <= Len(raw_hymns)
    /\ ~stop_processing
    /\ LET lines == SplitLines(CurrentBlock)
           h == HeaderLineIdx(variant, lines)
           m == HeaderMatch(variant, lines[h])
           cont == IsTitleContinuation(lines, h)
       IN /\ h # 0
          /\ raw_lines' = lines
          /\ hino_id' = DigitsToInt(m.num)
          /\ title' = IF cont
                      THEN Strip(m.rest) \o <<SP>> \o Strip(lines[h + 1])
                      ELSE Strip(m.rest)
          /\ body_start' = IF cont THEN h + 2 ELSE h + 1
          /\ li' = IF cont THEN h + 2 ELSE h + 1
    /\ stop_processing' = SeesIndice
    /\ lyrics_parts' = <<>>
    /\ current_label' = <<>>
    /\ current_buffer' = <<>>
    /\ buffer_src' = <<>>
    /\ next_verse_number' = 1
    /\ expecting_new_block' = FALSE
    /\ hymn_data' = <<>>
    /\ pc' = "lines"
    /\ UNCHANGED <<variant, content, raw_hymns, bi, html_files, hi>>
    /\ UNCHANGED outputVars

\* one body line through the segment builder
ProcessLine ==
    /\ pc = "lines"
    /\ li <= Len(raw_lines)
    /\ LET ns == ParseStep(variant, ParserState, raw_lines[li], li)
       IN /\ lyrics_parts' = ns.parts
          /\ current_label' = ns.label
          /\ current_buffer' = ns.buffer
          /\ buffer_src' = ns.src
          /\ next_verse_number' = ns.nvn
          /\ expecting_new_block' = ns.expecting
    /\ li' = li + 1
    /\ UNCHANGED <<variant, pc, content, raw_hymns, bi, stop_processing, raw_lines,
                   body_start, hino_id, title, hymn_data, html_files, hi>>
    /\ UNCHANGED outputVars

\* the last flush, the return of parse_hymn_block, and main's two writes
EndBlock ==
    /\ pc = "lines"
    /\ li > Len(raw_lines)
    /\ LET f == Flush(ParserState)
           res == ParseResult(variant, hino_id, title, f.parts)
       IN /\ lyrics_parts' = f.parts
          /\ current_buffer' = f.buffer
          /\ buffer_src' = f.src
          /\ hymn_data' = res
          /\ IF res = <<>>
             THEN UNCHANGED outputVars
             ELSE LET data == res[1]
                      name == JsonName(data.no)
                  IN /\ json_files' = (name :> data) @@ json_files
                     /\ md_files' = (MdNameOf(name) :> MdContent(data)) @@ md_files
                     /\ written' = Append(written,
                                          [src |-> bi, name |-> name, data |-> data])
    /\ bi' = bi + 1
    /\ pc' = "loop"
    /\ UNCHANGED <<variant, content, raw_hymns, stop_processing, raw_lines, li,
                   body_start, hino_id, title, current_label, next_verse_number,
                   expecting_new_block, html_files, hi>>

\* the for loop ends: no block left, or the index marker stopped it
Finish ==
    /\ pc = "loop"
    /\ bi > Len(raw_hymns) \/ stop_processing
    /\ pc' = "done"
    /\ UNCHANGED <<variant, content, raw_hymns, bi, stop_processing, hymn_data,
                   html_files, hi>>
    /\ UNCHANGED parserVars
    /\ UNCHANGED outputVars

\* ------------------------------------- process_local_files (Cantor Cristao)
SiteLit == <<"C", "o", "l", "e", "t", "a", "n", "e", "a", SP,
             "C", "a", "n", "t", "o", "r", SP,
             "C", "r", "i", "s", "t", "a", "o", SP, "-", SP>>

DashLit == <<SP, "-", SP>>

\* re.search(r"Coletanea Cantor Cristao - (\d+) - (.+)", title_text)
TitleTagMatch(t) ==
    LET ok(p) == LET q1 == p + Len(SiteLit)
                     q2 == SkipDigits(t, q1)
                 IN /\ StartsWithAt(t, p, SiteLit, FALSE)
                    /\ q2 > q1
                    /\ StartsWithAt(t, q2, DashLit, FALSE)
                    /\ q2 + Len(DashLit) <= Len(t)
        hits == {p \in 1..Len(t) : ok(p)}
    IN IF hits = {} THEN NoMatch
       ELSE LET p == CHOOSE q \in hits : \A r \in hits : q <= r
                q1 == p + Len(SiteLit)
                q2 == SkipDigits(t, q1)
            IN [ok |-> TRUE, num |-> SubSeq(t, q1, q2 - 1),
                rest |-> Tail_(t, q2 + Len(DashLit))]

RECURSIVE VerseBlocks(_, _)
\* the paragraphs kept as lyrics, numbered by verse_counter; a paragraph is
\* given by the lines BeautifulSoup extracts from it and by whether its text
\* holds one of the skip keywords (meta)
VerseBlocks(paras, verse_counter) ==
    IF paras = <<>> THEN <<>>
    ELSE IF paras[1].meta \/ paras[1].lines = <<>>
    THEN VerseBlocks(Tail(paras), verse_counter)
    ELSE <<[label |-> VerseLabel(verse_counter), lines |-> paras[1].lines,
            src |-> <<>>]>>
         \o VerseBlocks(Tail(paras), verse_counter + 1)

\* extract_hymn_data(filepath): number 0 and title "Unknown" unless the
\* <title> tag matches
ExtractHymnData(file) ==
    LET m == IF file.title_text = <<>> THEN NoMatch
             ELSE TitleTagMatch(Strip(file.title_text[1]))
    IN [no |-> IF m.ok THEN DigitsToInt(m.num) ELSE 0,
        title |-> IF m.ok THEN Strip(m.rest)
                  ELSE <<"U", "n", "k", "n", "o", "w", "n">>,
        lyrics |-> RenderLyrics(VerseBlocks(file.paras, 1))]

\* filename.split("-")[0]
FilenamePrefix(name) ==
    LET k == FindFrom(name, <<"-">>, 1)
    IN IF k = 0 THEN name ELSE SubSeq(name, 1, k - 1)

\* int(text) succeeds on digits, surrounding whitespace allowed
IsIntText(text) ==
    /\ Strip(text) # <<>>
    /\ \A k \in 1..Len(Strip(text)) : IsDigit(Strip(text)[k])

RECURSIVE FreeCounter(_, _, _)
\* the while loop over os.path.exists(json_path), counter starting at 2
FreeCounter(no, files, counter) ==
    IF (SuffixedName(no, counter) \o JsonExt) \in DOMAIN files
    THEN FreeCounter(no, files, counter + 1)
    ELSE counter

\* the JSON file name a record is saved under, with collision handling
CollisionFreeName(no, files) ==
    IF JsonName(no) \in DOMAIN files
    THEN SuffixedName(no, FreeCounter(no, files, 2)) \o JsonExt
    ELSE JsonName(no)

\* f"# {data['no']}. {data['title']}\n\n{data['lyrics']}"
CantorMdContent(data) ==
    <<"#", SP>> \o IntToChars(data.no) \o <<".", SP>> \o data.title
    \o <<NL, NL>> \o data.lyrics

\* one iteration of the loop over html_files
ProcessHtml ==
    /\ pc = "html"
    /\ hi <= Len(html_files)
    /\ LET file == html_files[hi]
           got == ExtractHymnData(file)
           prefix == FilenamePrefix(file.filename)
       IN IF got.no = 0 /\ ~IsIntText(prefix)
          THEN \* int() raises: warning, continue
               /\ hymn_data' = <<>>
               /\ UNCHANGED outputVars
          ELSE LET data == IF got.no = 0
                           THEN [got EXCEPT !.no = DigitsToInt(Strip(prefix))]
                           ELSE got
                   name == CollisionFreeName(data.no, json_files)
               IN /\ hymn_data' = <<data>>
                  /\ json_files' = (name :> data) @@ json_files
                  /\ md_files' = (MdNameOf(name) :> CantorMdContent(data)) @@ md_files
                  /\ written' = Append(written,
                                       [src |-> hi, name |-> name, data |-> data])
    /\ hi' = hi + 1
    /\ UNCHANGED <<variant, pc, content, raw_hymns, bi, stop_processing, html_files>>
    /\ UNCHANGED parserVars

\* the listing is exhausted
FinishHtml ==
    /\ pc = "html"
    /\ hi > Len(html_files)
    /\ pc' = "done"
    /\ UNCHANGED <<variant, content, raw_hymns, bi, stop_processing, hymn_data,
                   html_files, hi>>
    /\ UNCHANGED parserVars
    /\ UNCHANGED outputVars

\* ------------------------------------------------------------- the inputs
\* bounds of the inputs drawn by the initial states
MaxDocLines == 4

MaxBodyLines == 4

MaxGap == 2

\* all sequences over S of length lo..hi
SeqsOf(S, shortest, longest) == UNION {[1..n -> S] : n \in shortest..longest}

NoHtml == <<>>

TextInput(v, doc) == [variant |-> v, content |-> doc, html_files |-> NoHtml]

\* lines of a "Hinario CCB 5 Cantado" export: two headers (one numbered 0),
\* verse text, a blank line, a header met in the middle of a line, and a
\* header after a page break
GenerateDocLines ==
    { <<"H", "i", "n", "o", SP, "7", SP, "-", SP, "A">>,
      <<"H", "i", "n", "o", SP, "0", SP, "-", SP, "B">>,
      <<"1", ".", SP, "a">>,
      <<"b">>,
      <<>>,
      <<"x", SP, "H", "i", "n", "o", SP, "7", SP, "-", SP, "C">>,
      <<FF, "H", "i", "n", "o", SP, "7", SP, "-", SP, "D">> }

\* lines of a "Hinario CCB 5 Casteliano" export
CastelianoDocLines ==
    { <<"7", SP, "A">>,
      <<"0", SP, "B">>,
      <<"1", ".", SP, "a">>,
      <<"b">>,
      <<>>,
      <<IAcute, "n", "d", "i", "c", "e">> }

DocsOver(lineSet) == {JoinWith(ls, <<NL>>) : ls \in SeqsOf(lineSet, 1, MaxDocLines)}

\* the pages of OUTPUT_DIR, in sorted order of file name: two pages of hymn 7,
\* a page numbered 000 without a <title>, a page whose title carries number 0,
\* a page without any number
HtmlPool ==
    << [filename |-> <<"0", "0", "0", "-", "c", ".", "h", "t", "m", "l">>,
        title_text |-> <<>>,
        paras |-> <<[lines |-> <<<<"c">>>>, meta |-> FALSE]>>],
       [filename |-> <<"0", "0", "7", "-", "a", ".", "h", "t", "m", "l">>,
        title_text |-> <<<<"C", "o", "l", "e", "t", "a", "n", "e", "a", SP, "C", "a", "n", "t", "o", "r",
      SP, "C", "r", "i", "s", "t", "a", "o", SP, "-", SP, "7", SP, "-", SP, "A">>>>,
        paras |-> <<[lines |-> <<<<"L", "e", "t", "r", "a", ":", SP, "x">>>>, meta |-> TRUE],
                    [lines |-> <<<<"a">>, <<"b">>>>, meta |-> FALSE]>>],
       [filename |-> <<"0", "0", "7", "-", "b", ".", "h", "t", "m", "l">>,
        title_text |-> <<<<SP, "C", "o", "l", "e", "t", "a", "n", "e", "a", SP, "C", "a", "n", "t", "o",
      "r", SP, "C", "r", "i", "s", "t", "a", "o", SP, "-", SP, "0", "0", "7", SP,
      "-", SP, "B", SP>>>>,
        paras |-> <<[lines |-> <<<<"b">>>>, meta |-> FALSE]>>],
       [filename |-> <<"0", "0", "7", "-", "c", ".", "h", "t", "m", "l">>,
        title_text |-> <<<<"C", "a", "n", "t", "o", "r", SP, "-", SP, "9", SP, "-", SP, "C">>>>,
        paras |-> <<[lines |-> <<>>, meta |-> FALSE],
                    [lines |-> <<<<"c">>>>, meta |-> FALSE]>>],
       [filename |-> <<"0", "1", "2", "-", "d", ".", "h", "t", "m", "l">>,
        title_text |-> <<<<"C", "o", "l", "e", "t", "a", "n", "e", "a", SP, "C", "a", "n", "t", "o", "r",
      SP, "C", "r", "i", "s", "t", "a", "o", SP, "-", SP, "0", SP, "-", SP, "D">>>>,
        paras |-> <<>>],
       [filename |-> <<"x", ".", "h", "t", "m", "l">>,
        title_text |-> <<>>,
        paras |-> <<[lines |-> <<<<"x">>>>, meta |-> FALSE]>>] >>

RECURSIVE Pick(_, _)
\* the pages of the pool at the chosen indices, kept in sorted order
Pick(idx, k) ==
    IF k > Len(HtmlPool) THEN <<>>
    ELSE (IF k \in idx THEN <<HtmlPool[k]>> ELSE <<>>) \o Pick(idx, k + 1)

HtmlListings == {Pick(idx, 1) : idx \in SUBSET (1..Len(HtmlPool))}

\* a hymn whose last line runs into the index heading, and a hymn behind it
IndiceMidLineDoc ==
    JoinWith(<< <<"7", SP, "A">>, <<"1", ".", SP, "a">>,
                <<"b", SP>> \o IndiceLit \o <<SP, "c">>,
                <<"0", SP, "B">>, <<"1", ".", SP, "a">> >>, <<NL>>)

\* the index heading on a line of its own between two hymns
IndiceLineDoc ==
    JoinWith(<< <<"7", SP, "A">>, <<"1", ".", SP, "a">>, IndiceLit,
                <<"0", SP, "B">>, <<"b">> >>, <<NL>>)

IndiceDocs == {IndiceMidLineDoc, IndiceLineDoc}

\* a run of one of the three scripts on one input
MainInputs ==
    {TextInput("generate", d) : d \in DocsOver(GenerateDocLines)}
    \cup {TextInput("casteliano", d) : d \in DocsOver(CastelianoDocLines) \cup IndiceDocs}
    \cup {[variant |-> "cantor", content |-> <<>>, html_files |-> l] : l \in HtmlListings}

Init == \E in \in MainInputs : InitOn(in)

Next ==
    \/ Split
    \/ Filter
    \/ SkipBlock
    \/ BeginBlock
    \/ ProcessLine
    \/ EndBlock
    \/ Finish
    \/ ProcessHtml
    \/ FinishHtml

Spec == Init /\ [][Next]_vars

\* ----------------------------------------- single blocks for the parsers
TextVariants == {"generate", "casteliano"}

\* a header line each parser accepts
HeaderLine(v) ==
    IF v = "generate"
    THEN <<"H", "i", "n", "o", SP, "5", SP, "-", SP, "T">>
    ELSE <<"5", SP, "T", SP, "(", "b", ")">>

\* body lines: blank, verse markers (out of order when "3 c" comes first),
\* Coro with and without text, plain text, text indented past the threshold
BlockLines ==
    { <<>>,
      <<"1", ".", SP, "a">>,
      <<"3", SP, "c">>,
      <<"C", "o", "r", "o">>,
      <<"C", "o", "r", "o", ":", SP, "g">>,
      <<"x">>,
      <<SP, SP, SP, SP, SP, SP, "y">> }

\* the worked example of the specification (accents dropped)
ExampleBlock ==
    <<"5", SP, "T", "i", "t", "u", "l", "o", SP, "B", "o", "n", "i", "t", "o", NL, NL,
      "1", ".", SP, "P", "r", "i", "m", "e", "i", "r", "a", SP, "l", "i", "n", "h",
      "a", NL, "S", "e", "g", "u", "n", "d", "a", SP, "l", "i", "n", "h", "a", NL,
      NL, "C", "o", "r", "o", NL, "L", "i", "n", "h", "a", SP, "d", "o", SP, "c",
      "o", "r", "o", NL, NL, "2", ".", SP, "O", "u", "t", "r", "a", SP, "e", "s",
      "t", "r", "o", "f", "e">>

\* the same hymn under the header format of generate.py
ExampleBlockHino ==
    <<"H", "i", "n", "o", SP, "5", SP, "-", SP, "T", "i", "t", "u", "l", "o", SP, "B",
      "o", "n", "i", "t", "o", NL, NL, "1", ".", SP, "P", "r", "i", "m", "e", "i",
      "r", "a", SP, "l", "i", "n", "h", "a", NL, "S", "e", "g", "u", "n", "d", "a",
      SP, "l", "i", "n", "h", "a", NL, NL, "C", "o", "r", "o", NL, "L", "i", "n",
      "h", "a", SP, "d", "o", SP, "c", "o", "r", "o", NL, NL, "2", ".", SP, "O",
      "u", "t", "r", "a", SP, "e", "s", "t", "r", "o", "f", "e">>

GloriaLine == <<"C", "o", "r", "o", ":", SP, "G", "l", "o", "r", "i", "a", SP, "a", SP, "D", "e",
      "u", "s">>

AlturasLine == <<"n", "a", "s", SP, "a", "l", "t", "u", "r", "a", "s">>

\* a Coro marker with text, directly followed by two plain lines
GloriaBlock(v) == JoinWith(<<HeaderLine(v), GloriaLine, AlturasLine, AlturasLine>>, <<NL>>)

BlocksOf(v) ==
    {JoinWith(<<HeaderLine(v)>> \o body, <<NL>>) : body \in SeqsOf(BlockLines, 0, MaxBodyLines)}
    \cup {ExampleBlock, ExampleBlockHino, GloriaBlock(v)}

InitBlock == \E v \in TextVariants : \E b \in BlocksOf(v) : InitOnBlock(v, b)

NextBlock ==
    \/ SkipBlock
    \/ BeginBlock
    \/ ProcessLine
    \/ EndBlock
    \/ Finish

SpecBlock == InitBlock /\ [][NextBlock]_vars

\* --------------------------- blocks with the verse markers 1, 2, 3 in order
PlainLine == <<"x">>

GapLines == {<<>>, PlainLine}

Marker1Lines == {<<"1", ".">>, <<"1", ".", SP, "a">>}

Marker2Line == <<"2", SP, "b">>

Marker3Lines == {<<"3">>, <<"3", ".", SP, "c">>}

\* the lines after the three markers; together at most MaxGap + 1 of them
GapTriples ==
    {t \in SeqsOf(GapLines, 0, MaxGap) \X SeqsOf(GapLines, 0, MaxGap)
              \X SeqsOf(GapLines, 0, MaxGap) :
        Len(t[1]) + Len(t[2]) + Len(t[3]) <= MaxGap + 1}

VerseBodies ==
    {lead \o <<m1>> \o t[1] \o <<Marker2Line>> \o t[2] \o <<m3>> \o t[3] :
        lead \in SeqsOf({<<>>}, 0, 1), m1 \in Marker1Lines, m3 \in Marker3Lines,
        t \in GapTriples}

InitVerses ==
    \E v \in TextVariants : \E body \in VerseBodies :
        InitOnBlock(v, JoinWith(<<HeaderLine(v)>> \o body, <<NL>>))

NextVerses ==
    \/ BeginBlock
    \/ ProcessLine
    \/ EndBlock
    \/ Finish

SpecVerses == InitVerses /\ [][NextVerses]_vars

\* =================================================================== claims
\* In SpecBlock and SpecVerses main holds one block: it is behind the loop
\* once bi has moved on, and it was parsed when a header was found
BlockHandled == bi = 2

BlockParsed == BlockHandled /\ pc # "lines" /\ body_start > 1

ExampleTitle == <<"T", "i", "t", "u", "l", "o", SP, "B", "o", "n", "i", "t", "o">>

ExampleLyrics ==
    <<"[", "V", "e", "r", "s", "e", SP, "1", "]", NL, "P", "r", "i", "m", "e", "i",
      "r", "a", SP, "l", "i", "n", "h", "a", NL, "S", "e", "g", "u", "n", "d", "a",
      SP, "l", "i", "n", "h", "a", NL, NL, "[", "C", "h", "o", "r", "u", "s", "]",
      NL, "L", "i", "n", "h", "a", SP, "d", "o", SP, "c", "o", "r", "o", NL, NL,
      "[", "V", "e", "r", "s", "e", SP, "2", "]", NL, "O", "u", "t", "r", "a", SP,
      "e", "s", "t", "r", "o", "f", "e">>

\* C1: the worked example "5 Titulo Bonito / 1. Primeira linha / Segunda linha /
\* Coro / Linha do coro / 2. Outra estrofe" parses to number 5, title
\* "Titulo Bonito" and the three segments Verse 1, Chorus, Verse 2, separated
\* by one blank line.  Stated of the example under either header format,
\* for the parser that finds its header.
C1_ExampleParse ==
    (content \in {ExampleBlock, ExampleBlockHino} /\ BlockParsed)
        => hymn_data = <<[no |-> 5, title |-> ExampleTitle, lyrics |-> ExampleLyrics]>>

\* a Coro marker line that carries text after the keyword
IsCoroWithText(line) ==
    /\ ~VerseMatch(Strip(line)).ok
    /\ StartsWithAt(Strip(line), 1, CoroLit, TRUE)
    /\ Strip(ChorusMatch(Strip(line)).rest) # <<>>

\* a plain unindented line: text at column 0, no verse number, no Coro
IsPlainUnindented(line) ==
    /\ line # <<>>
    /\ ~IsSpace(line[1])
    /\ ~IsDigit(line[1])
    /\ ~StartsWithAt(line, 1, CoroLit, TRUE)

\* C2: a Coro marker with trailing text directly followed by two plain
\* unindented lines yields one Chorus segment that starts with the trailing
\* text and continues with both lines; they start no segment of their own.
C2_ChorusKeepsLines ==
    BlockParsed =>
        \A i \in body_start..(Len(raw_lines) - 2) :
            (/\ IsCoroWithText(raw_lines[i])
             /\ IsPlainUnindented(raw_lines[i + 1])
             /\ IsPlainUnindented(raw_lines[i + 2]))
            => \E k \in 1..Len(lyrics_parts) :
                  /\ lyrics_parts[k].label = ChorusLabel
                  /\ Len(lyrics_parts[k].lines) >= 3
                  /\ SubSeq(lyrics_parts[k].src, 1, 3) = <<i, i + 1, i + 2>>
                  /\ SubSeq(lyrics_parts[k].lines, 1, 3)
                       = <<Strip(ChorusMatch(Strip(raw_lines[i])).rest),
                           Strip(raw_lines[i + 1]), Strip(raw_lines[i + 2])>>

\* ---- the body of a block seen as verse markers and the lines after each
IsMarkerLine(line) == VerseMatch(Strip(line)).ok

MarkerNumber(line) == DigitsToInt(VerseMatch(Strip(line)).num)

MarkerIdxs == {i \in body_start..Len(raw_lines) : IsMarkerLine(raw_lines[i])}

\* the marker lines of the body are exactly 1, 2, 3, in that order
HasMarkers123 ==
    /\ Cardinality(MarkerIdxs) = 3
    /\ \A i \in MarkerIdxs :
          MarkerNumber(raw_lines[i]) = Cardinality({j \in MarkerIdxs : j <= i})

\* the lines that belong to marker line m: from it up to the next marker
RegionOf(m) ==
    {i \in m..Len(raw_lines) : \A j \in MarkerIdxs : j > m => i < j}

\* the lines of a region that carry lyric text: the marker line when text
\* follows the number, and every non-blank line after it
TextLinesOf(m) ==
    {i \in RegionOf(m) :
        IF i = m THEN Strip(VerseMatch(Strip(raw_lines[m])).rest) # <<>>
        ELSE Strip(raw_lines[i]) # <<>>}

LyricText(i) ==
    IF IsMarkerLine(raw_lines[i]) THEN Strip(VerseMatch(Strip(raw_lines[i])).rest)
    ELSE Strip(raw_lines[i])

\* a blank line lies between two text lines of the same region
BlankInsideRegion(m) ==
    \E i, k \in TextLinesOf(m) : \E j \in RegionOf(m) :
        i < j /\ j < k /\ Strip(raw_lines[j]) = <<>>

\* nothing but blank lines precedes the first marker
OnlyBlanksBeforeMarkers ==
    \A i \in body_start..Len(raw_lines) :
        (\A m \in MarkerIdxs : i < m) => Strip(raw_lines[i]) = <<>>

\* every other line of the body is blank or plain unindented text
OnlyPlainBetweenMarkers ==
    \A i \in body_start..Len(raw_lines) :
        \/ i \in MarkerIdxs
        \/ Strip(raw_lines[i]) = <<>>
        \/ IsPlainUnindented(raw_lines[i])

RECURSIVE Ascending(_)
\* the elements of a finite set of numbers, in increasing order
Ascending(S) ==
    IF S = {} THEN <<>>
    ELSE LET lo == CHOOSE x \in S : \A y \in S : x <= y
         IN <<lo>> \o Ascending(S \ {lo})

SegmentLabels == [k \in 1..Len(lyrics_parts) |-> lyrics_parts[k].label]

Verses123 == <<VerseLabel(1), VerseLabel(2), VerseLabel(3)>>

\* C3 as claimed: with the marker lines 1, 2, 3 in order and any mix of plain
\* and blank lines between them, the lyrics hold exactly the three segments
\* Verse 1, Verse 2, Verse 3.
C3_ExactlyThreeVerses ==
    (BlockParsed /\ HasMarkers123 /\ OnlyBlanksBeforeMarkers)
        => SegmentLabels = Verses123

\* C3 amended: the same, for bodies in which every marker has lyric text and
\* no blank line separates two text lines of one marker; each segment then
\* holds exactly the text lines from its marker up to the next marker.
C3_ThreeVersesNoBoundary ==
    (/\ BlockParsed /\ HasMarkers123 /\ OnlyBlanksBeforeMarkers
     /\ OnlyPlainBetweenMarkers
     /\ \A m \in MarkerIdxs : TextLinesOf(m) # {} /\ ~BlankInsideRegion(m))
        => /\ SegmentLabels = Verses123
           /\ \A m \in MarkerIdxs :
                 LET k == MarkerNumber(raw_lines[m])
                     idx == Ascending(TextLinesOf(m))
                 IN /\ lyrics_parts[k].src = idx
                    /\ lyrics_parts[k].lines = [n \in 1..Len(idx) |-> LyricText(idx[n])]

\* C3 witness: three markers, a blank line and plain lines between them, and
\* the three verses emitted with a verse of three lines
C3_Witness ==
    /\ BlockParsed /\ HasMarkers123
    /\ \A m \in MarkerIdxs : TextLinesOf(m) # {} /\ ~BlankInsideRegion(m)
    /\ \E i \in body_start..Len(raw_lines) :
          i > 2 /\ Strip(raw_lines[i]) = <<>> /\ \E m \in MarkerIdxs : m > i
    /\ SegmentLabels = Verses123
    /\ \E k \in 1..3 : Len(lyrics_parts[k].lines) = 3

\* ---- the title continuation
\* the claim's three conditions on the line after the header line h
ContinuationAt(h) ==
    /\ h + 1 <= Len(raw_lines)
    /\ Strip(raw_lines[h + 1]) # <<>>
    /\ ~IsDigit(Strip(raw_lines[h + 1])[1])
    /\ ~StartsWithAt(Strip(raw_lines[h + 1]), 1, CoroLit, TRUE)
    /\ h + 2 <= Len(raw_lines)
    /\ \A k \in 1..Len(raw_lines[h + 2]) : IsSpace(raw_lines[h + 2][k])

\* the text a body line gives to a segment: what follows a marker, or the line
ContributedText(line) ==
    IF VerseMatch(Strip(line)).ok THEN Strip(VerseMatch(Strip(line)).rest)
    ELSE IF ChorusMatch(Strip(line)).ok THEN Strip(ChorusMatch(Strip(line)).rest)
    ELSE Strip(line)

SegmentSources == UNION {{lyrics_parts[k].src[n] : n \in 1..Len(lyrics_parts[k].src)} :
                            k \in 1..Len(lyrics_parts)}

\* C4: a non-empty line right after the header that starts with no numeral
\* and no chorus keyword and is followed by a blank line joins the title and
\* reaches no segment; otherwise the title is the header's alone and the line
\* after the header is body (its text, if any, lands in a segment).
C4_TitleContinuation ==
    BlockParsed =>
        LET h == HeaderLineIdx(variant, raw_lines)
            base == Strip(HeaderMatch(variant, raw_lines[h]).rest)
        IN IF ContinuationAt(h)
           THEN /\ title = base \o <<SP>> \o Strip(raw_lines[h + 1])
                /\ hymn_data # <<>> => hymn_data[1].title = CleanTitle(variant, title)
                /\ body_start = h + 2
                /\ \A n \in SegmentSources : n > h + 1
           ELSE /\ title = base
                /\ hymn_data # <<>> => hymn_data[1].title = CleanTitle(variant, base)
                /\ body_start = h + 1
                /\ (h + 1 <= Len(raw_lines) /\ ContributedText(raw_lines[h + 1]) # <<>>)
                      => (h + 1) \in SegmentSources

\* C4 witness: a continuation line was merged and verses followed it
C4_Witness ==
    /\ BlockParsed
    /\ ContinuationAt(HeaderLineIdx(variant, raw_lines))
    /\ hymn_data # <<>>
    /\ hymn_data[1].title = CleanTitle(variant, title)
    /\ title # Strip(HeaderMatch(variant, raw_lines[HeaderLineIdx(variant, raw_lines)]).rest)
    /\ lyrics_parts # <<>>

\* ---- records and files
\* how many earlier writes of the run carried the same hymn number
EarlierSameNumber(j) ==
    Cardinality({i \in 1..(j - 1) : written[i].data.no = written[j].data.no})

\* C5: records with the same number are persisted side by side: the first as
\* "<number>.json", the k-th as "<number>-<k>.json", and a record written
\* earlier in the run is never overwritten.
C5_CollisionNames ==
    \A j \in 1..Len(written) :
        /\ written[j].name =
              IF EarlierSameNumber(j) = 0 THEN JsonName(written[j].data.no)
              ELSE SuffixedName(written[j].data.no, EarlierSameNumber(j) + 1) \o JsonExt
        /\ written[j].name \in DOMAIN json_files
        /\ json_files[written[j].name] = written[j].data

\* C6: a block with a header but no segment is discarded: no record is
\* returned and no file is written for it.
C6_EmptyBlockDiscarded ==
    (BlockParsed /\ lyrics_parts = <<>>) => (hymn_data = <<>> /\ written = <<>>)

\* C9: every persisted record carries a number >= 1.
C9_PositiveNumber == \A j \in 1..Len(written) : written[j].data.no >= 1

\* ---- the splitter
Concat(blocks) == JoinWith(blocks, <<>>)

RECURSIVE NonSpaceChars(_)
NonSpaceChars(s) ==
    IF s = <<>> THEN <<>>
    ELSE (IF IsSpace(s[1]) THEN <<>> ELSE <<s[1]>>) \o NonSpaceChars(Tail(s))

AfterFilter == variant # "cantor" /\ pc \in {"loop", "lines", "done"}

\* C7 as claimed: the blocks kept after the whitespace-only ones are filtered
\* out concatenate to the document.
C7_KeptBlocksReconstruct == AfterFilter => Concat(raw_hymns) = content

\* C7 amended: the pieces of re.split, before the filter, concatenate to the
\* document; the kept blocks concatenate to the document less whitespace
\* (the whitespace-only pieces), so no other character is lost or added.
C7_SplitReconstructs ==
    /\ pc = "filter" => Concat(raw_hymns) = content
    /\ AfterFilter => /\ NonSpaceChars(Concat(raw_hymns)) = NonSpaceChars(content)
                      /\ Len(Concat(raw_hymns)) <= Len(content)

\* C7 witness: a split into three pieces or more, one of them only whitespace
C7_Witness ==
    /\ pc = "filter"
    /\ Len(raw_hymns) >= 3
    /\ \E k \in 1..Len(raw_hymns) : raw_hymns[k] # <<>> /\ ~NonBlank(raw_hymns[k])

\* where piece k of the split starts in the document
PieceStart(k) == 1 + Len(Concat(SubSeq(raw_hymns, 1, k - 1)))

\* the start of a line, or right behind a page break
AtLineStart(s, p) == p = 1 \/ s[p - 1] \in {NL, FF}

\* C8: every block after the first starts at the start of a line (a page
\* break may precede it), never in the middle of a line.
C8_BlocksStartLines ==
    pc = "filter" => \A k \in 2..Len(raw_hymns) : AtLineStart(content, PieceStart(k))

\* ---- next_verse_number
LineStep == pc = "lines" /\ li' = li + 1

\* C10 as claimed: no body line lowers next_verse_number.
C10_NeverDecreases ==
    [][LineStep => next_verse_number' >= next_verse_number]_vars

\* C10 amended: a line that is no explicit verse marker never lowers
\* next_verse_number; an explicit marker numbered n sets it to n + 1.
C10_MarkersSetOthersKeep ==
    [][LineStep =>
          IF IsMarkerLine(raw_lines[li])
          THEN next_verse_number' = MarkerNumber(raw_lines[li]) + 1
          ELSE next_verse_number' >= next_verse_number]_vars

\* C10 witness: a line without a marker has just opened an implicit verse
\* behind an earlier one, and the counter moved up
C10_Witness ==
    /\ pc = "lines"
    /\ li > body_start
    /\ ~IsMarkerLine(raw_lines[li - 1])
    /\ next_verse_number >= 3
    /\ current_label = VerseLabel(next_verse_number - 1)
    /\ buffer_src = <<li - 1>>

\* ---- the index marker of the Casteliano export
\* where the first "Indice" of a block starts, 0 when the block has none
IndicePos(block) == FindFrom(block, IndiceLit, 1)

\* the kept blocks that contain the index marker
IndiceBlocks == {k \in 1..Len(raw_hymns) : IndicePos(raw_hymns[k]) # 0}

BeforeIndice(k) == SubSeq(raw_hymns[k], 1, IndicePos(raw_hymns[k]) - 1)

\* C11: in the Casteliano main, a block that contains "Indice" is parsed cut
\* at its first "Indice", no block behind it is parsed or persisted, and
\* every record written comes from a block before it or from its prefix.
C11_StopsAtIndice ==
    (variant = "casteliano" /\ AfterFilter) =>
        \A k \in IndiceBlocks :
            /\ bi <= k + 1
            /\ bi = k + 1 => (stop_processing /\ pc # "lines")
            /\ (bi = k /\ pc = "lines") => raw_lines = SplitLines(BeforeIndice(k))
            /\ \A j \in 1..Len(written) :
                  /\ written[j].src <= k
                  /\ written[j].src = k =>
                        /\ raw_lines = SplitLines(BeforeIndice(k))
                        /\ IndicePos(written[j].data.lyrics) = 0
                        /\ IndicePos(written[j].data.title) = 0

\* C11 witness: the run ended at a block cut in the middle, whose prefix gave
\* a record, with a hymn (header and verse) left unparsed behind it
C11_Witness ==
    /\ variant = "casteliano" /\ pc = "done"
    /\ \E k \in IndiceBlocks :
          /\ k < Len(raw_hymns)
          /\ bi = k + 1
          /\ \E j \in 1..Len(written) : written[j].src = k
          /\ HeaderLineIdx(variant, SplitLines(raw_hymns[k + 1])) # 0
          /\ Len(SplitLines(raw_hymns[k + 1])) >= 2
          /\ \A j \in 1..Len(written) : written[j].data.no # 0

\* ---- lyric conservation
\* the body lines up to line n that carry lyric text
LyricLines(n) == {i \in body_start..n : ContributedText(raw_lines[i]) # <<>>}

\* the body lines behind the emitted segments and the buffer, in their order
EmittedSources ==
    JoinWith([k \in 1..Len(lyrics_parts) |-> lyrics_parts[k].src], <<>>) \o buffer_src

\* C12: once the header is found, every body line processed so far that
\* carries text (its trimmed text less a leading verse number or Coro marker)
\* sits exactly once, in input order, in an emitted segment or the buffer;
\* nothing is dropped at a flush or duplicated, no segment has an empty label
\* or no line, no blank line is in a segment, and the returned lyrics render
\* the segments.
C12_LyricConservation ==
    body_start > 1 =>
        /\ EmittedSources = Ascending(LyricLines(li - 1))
        /\ \A k \in 1..Len(lyrics_parts) :
              LET part == lyrics_parts[k]
              IN /\ part.label # <<>>
                 /\ part.lines # <<>>
                 /\ Len(part.lines) = Len(part.src)
                 /\ \A n \in 1..Len(part.lines) :
                       /\ part.lines[n] = ContributedText(raw_lines[part.src[n]])
                       /\ Strip(part.lines[n]) # <<>>
        /\ Len(current_buffer) = Len(buffer_src)
        /\ \A n \in 1..Len(current_buffer) :
              current_buffer[n] = ContributedText(raw_lines[buffer_src[n]])
        /\ current_buffer # <<>> => current_label # <<>>
        /\ BlockParsed =>
              /\ current_buffer = <<>>
              /\ li = Len(raw_lines) + 1
              /\ hymn_data # <<>> => hymn_data[1].lyrics = RenderLyrics(lyrics_parts)

\* C12 witness: a parsed block with a blank line and a marker without text in
\* its body, whose lyrics hold a chorus among three segments or more
C12_Witness ==
    /\ BlockParsed
    /\ hymn_data # <<>>
    /\ Len(lyrics_parts) >= 3
    /\ \E k \in 1..Len(lyrics_parts) : lyrics_parts[k].label = ChorusLabel
    /\ \E i \in body_start..Len(raw_lines) : Strip(raw_lines[i]) = <<>>
    /\ \E i \in body_start..Len(raw_lines) :
          Strip(raw_lines[i]) # <<>> /\ ContributedText(raw_lines[i]) = <<>>

====
